---- MODULE Spec2Model ----
(***************************************************************************)
(* Model of the two cuML benchmark driver scripts, cuml/kmeans.py and      *)
(* cuml_bench/df_clsf.py.  One process runs one script from argument       *)
(* parsing to report emission; after Exit the same script can be started   *)
(* again as a fresh process.  The collaborators of module bench (parse_args,*)
(* load_data, measure_function_time, print_output, accuracy_score) and the *)
(* cuML / numpy calls are modelled by their contracts.                     *)
(***************************************************************************)
EXTENDS Integers, Sequences, FiniteSets, TLC

(***************************************************************************)
(* Bounds of the model.                                                    *)
(***************************************************************************)
MaxReps == 2        \* calls of the callable made by one measure_function_time
MaxSeed == 1        \* --seed ranges over 0..MaxSeed
RngMod == 3         \* size of the state space of the global numpy generator

(***************************************************************************)
(* Python values: every value carries its type, so that None, an int and a *)
(* str are different values.                                               *)
(***************************************************************************)
PyNone == [t |-> "none", v |-> 0]
PyInt(i) == [t |-> "int", v |-> i]
PyFloat(i) == [t |-> "float", v |-> i]
PyStr(s) == [t |-> "str", v |-> s]
PyBool(b) == [t |-> "bool", v |-> b]

(***************************************************************************)
(* The command line.  A flag is either omitted or carries one token.       *)
(***************************************************************************)
Omitted == "<omitted>"

IntTokens == <<"0", "1", "2", "3", "4", "5", "6", "7", "8">>

Token(i) == IF i = -1 THEN "-1" ELSE IntTokens[i + 1]

IntRange == -1 .. (Len(IntTokens) - 1)

\* int(s) succeeds
IsIntLiteral(s) == \E i \in IntRange : Token(i) = s

\* int(s)
ParseInt(s) == CHOOSE i \in IntRange : Token(i) = s

\* argparse type=int / type=float / type=str / choices=...: does the token pass
TypeOk(kind, s) ==
    CASE kind = "int" -> IsIntLiteral(s)
      [] kind = "float" -> IsIntLiteral(s)
      [] kind = "float_or_int" -> IsIntLiteral(s)
      [] kind = "str" -> TRUE
      [] kind = "criterion" -> s \in {"gini", "entropy"}
      [] kind = "split_algorithm" -> s \in {"hist", "global_quantile"}
      [] kind = "flag" -> s = "set"

\* the value argparse stores for a token that passed
Convert(kind, s) ==
    CASE kind = "int" -> PyInt(ParseInt(s))
      [] kind = "float_or_int" -> PyInt(ParseInt(s))
      [] kind = "float" -> PyFloat(ParseInt(s))
      [] kind = "flag" -> PyBool(FALSE)
      [] OTHER -> PyStr(s)

DefaultNumTrees == 100
DefaultMaxIter == 100
DefaultSamplesPerBatch == 32768
DefaultMinSamplesSplit == 2
DefaultMaxLeafNodes == -1

\* cuml/kmeans.py: the declared flags, their types and defaults
KmeansFlags ==
    [filei |-> [kind |-> "str", default |-> PyNone],
     tol |-> [kind |-> "float", default |-> PyFloat(0)],
     maxiter |-> [kind |-> "int", default |-> PyInt(DefaultMaxIter)],
     samples_per_batch |-> [kind |-> "int",
                            default |-> PyInt(DefaultSamplesPerBatch)],
     n_clusters |-> [kind |-> "int", default |-> PyNone]]

\* cuml_bench/df_clsf.py: the declared flags, their types and defaults
ClsfFlags ==
    [criterion |-> [kind |-> "criterion", default |-> PyStr("gini")],
     split_algorithm |-> [kind |-> "split_algorithm",
                          default |-> PyStr("hist")],
     num_trees |-> [kind |-> "int", default |-> PyInt(DefaultNumTrees)],
     max_features |-> [kind |-> "float_or_int", default |-> PyNone],
     max_depth |-> [kind |-> "int", default |-> PyNone],
     min_samples_split |-> [kind |-> "float_or_int",
                            default |-> PyInt(DefaultMinSamplesSplit)],
     max_leaf_nodes |-> [kind |-> "int",
                         default |-> PyInt(DefaultMaxLeafNodes)],
     min_impurity_decrease |-> [kind |-> "float", default |-> PyFloat(0)],
     bootstrap |-> [kind |-> "flag", default |-> PyBool(TRUE)]]

\* bench.parse_args: the flags every benchmark shares (only --seed is read
\* by the scripts themselves)
CommonFlags == [seed |-> [kind |-> "int", default |-> PyInt(12345)]]

Merge(a, b) ==
    [f \in DOMAIN a \cup DOMAIN b |-> IF f \in DOMAIN a THEN a[f] ELSE b[f]]

\* the flags the parser knows when parse_args runs it
FlagsOf(s) ==
    Merge(IF s = "kmeans" THEN KmeansFlags ELSE ClsfFlags, CommonFlags)

\* parser.parse_args() accepts the command line
ArgsValid(flags, av) ==
    \A f \in DOMAIN flags : av[f] # Omitted => TypeOk(flags[f].kind, av[f])

\* the namespace parse_args returns for an accepted command line
ParsedParams(flags, av) ==
    [f \in DOMAIN flags |->
        IF av[f] = Omitted THEN flags[f].default
        ELSE Convert(flags[f].kind, av[f])]

SeedTokens == {Token(i) : i \in 0 .. MaxSeed}

\* the command lines the model tries for cuml/kmeans.py
KmeansArgvs ==
    [filei : {Omitted, "init2.npy", "missing.npy"},
     tol : {Omitted, "1"},
     maxiter : {Omitted},
     samples_per_batch : {Omitted},
     n_clusters : {Omitted, "-1", "2", "many"},
     seed : SeedTokens]

\* the command lines the model tries for cuml_bench/df_clsf.py
ClsfArgvs ==
    [criterion : {Omitted, "gini", "entropy", "mse"},
     split_algorithm : {Omitted, "hist", "global_quantile", "best"},
     num_trees : {Omitted, "1", "2", "ten"},
     max_features : {Omitted},
     max_depth : {Omitted, "8"},
     min_samples_split : {Omitted},
     max_leaf_nodes : {Omitted},
     min_impurity_decrease : {Omitted},
     bootstrap : {Omitted, "set"},
     seed : {"0"}]

ArgvsOf(s) == IF s = "kmeans" THEN KmeansArgvs ELSE ClsfArgvs

(***************************************************************************)
(* Data: load_data returns the train and test partitions.  A row is        *)
(* abstracted to a number; equal numbers are equal rows.  iloc tells a     *)
(* cudf DataFrame from an ndarray.                                         *)
(***************************************************************************)
Datasets ==
    {[X_train |-> <<10, 11>>, y_train |-> <<0, 1>>,
      X_test |-> <<12>>, y_test |-> <<1>>, iloc |-> TRUE],
     [X_train |-> <<20, 21, 20>>, y_train |-> <<0, 0, 0>>,
      X_test |-> <<22, 23>>, y_test |-> <<0, 0>>, iloc |-> FALSE]}

\* np.load(path): the rows of the centroid files that exist
Files == [p \in {"init2.npy"} |-> <<30, 31>>]

\* a name that is not bound yet
Unbound == [ndim |-> -1, rows |-> <<>>]

(***************************************************************************)
(* numpy's global generator: seed(s) sets its state from s alone, each     *)
(* draw of randint(0, n) reads the state and advances it.                  *)
(***************************************************************************)
SeedState(s) == s % RngMod

DrawAt(st, n, i) == ((st + i - 1) % RngMod) % n

\* np.random.randint(0, n, size=size) from generator state st: size None
\* gives one scalar index, an int gives an array of that many indices
RandInt(st, n, size) ==
    IF size.t = "none" THEN [ndim |-> 0, rows |-> <<DrawAt(st, n, 1)>>]
    ELSE [ndim |-> 1, rows |-> [i \in 1 .. size.v |-> DrawAt(st, n, i)]]

\* randint raises ValueError: empty range or negative size
RandIntRaises(n, size) == n <= 0 \/ (size.t = "int" /\ size.v < 0)

\* X_train[centroids_idx] / X_train.iloc[centroids_idx]: a scalar index
\* selects one row (1-D), an index array selects a 2-D array of rows
TakeRows(X, idx) ==
    IF idx.ndim = 0 THEN [ndim |-> 1, rows |-> <<X[idx.rows[1] + 1]>>]
    ELSE [ndim |-> 2,
          rows |-> [i \in 1 .. Len(idx.rows) |-> X[idx.rows[i] + 1]]]

\* the generator state after randint drew its indices from state st
RngAfter(st, size) ==
    (st + (IF size.t = "none" THEN 1 ELSE size.v)) % RngMod

\* the selection without the np.random.seed call: the draw starts from the
\* state the generator happens to be in
SampleCentroids_Unseeded(st, p, X) ==
    LET centroids_idx == RandInt(st, Len(X), p.n_clusters)
    IN  [rng |-> RngAfter(st, p.n_clusters),
         centroids_idx |-> centroids_idx,
         X_init |-> TakeRows(X, centroids_idx)]

\* lines 39-45: seed the generator, draw the indices, take the rows.  st is
\* the generator state the process had before np.random.seed
SampleCentroids(st, p, X) ==
    LET seeded == SeedState(p.seed.v)
        centroids_idx == RandInt(seeded, Len(X), p.n_clusters)
    IN  [rng |-> RngAfter(seeded, p.n_clusters),
         centroids_idx |-> centroids_idx,
         X_init |-> TakeRows(X, centroids_idx)]

(***************************************************************************)
(* Estimator objects.  ests is the heap of the estimators constructed so   *)
(* far; a reference is an index into it, 0 an unbound name.                *)
(***************************************************************************)
\* KMeans(...) as kmeans_fit constructs it
NewKMeans(p, init) ==
    [cls |-> "KMeans",
     args |-> [n_clusters |-> p.n_clusters, tol |-> p.tol,
               max_iter |-> p.maxiter, init |-> init,
               max_samples_per_batch |-> p.samples_per_batch],
     fits |-> 0, predicts |-> 0, inertia_ |-> 0]

\* the values the library can leave in inertia_
Inertias == {0, 1}

\* alg.fit(X): the library fits the object and sets its inertia_
FitEst(e, inertia) == [e EXCEPT !.fits = @ + 1, !.inertia_ = inertia]

\* alg.predict(X): whether the library rewrites inertia_ is its own contract
PredictEst(e, rewrites, inertia) ==
    [e EXCEPT !.predicts = @ + 1,
              !.inertia_ = IF rewrites THEN inertia ELSE @]

\* float(kmeans.inertia_)
ReadInertia(e) == PyFloat(e.inertia_)

VARIABLES
    script,        \* which script this process runs
    argv,          \* its command line
    pc,            \* position in the script
    error,         \* the uncaught exception, "none" while there is none
    exitCode,      \* PyNone while running, then the exit status
    params,        \* the namespace returned by parse_args
    data,          \* X_train, X_test, y_train, y_test as loaded
    rng,           \* state of numpy's global generator
    centroids_idx, \* kmeans.py: the sampled indices
    X_init,        \* kmeans.py: the initial centroids
    ests,          \* the estimator objects constructed so far
    kmeans,        \* kmeans.py: the estimator the timed fit returned
    clf,           \* df_clsf.py: the global clf
    calls,         \* calls made so far by the running measure_function_time
    fit_time,
    predict_time,
    train_inertia,
    test_inertia,
    train_acc,
    test_acc,
    y_pred,        \* df_clsf.py: the last prediction
    report,        \* the print_output invocations
    predictRewritesInertia, \* the library's contract for KMeans.predict
    prev           \* the centroid selection of the previous kmeans.py run

vars == <<script, argv, pc, error, exitCode, params, data, rng, centroids_idx,
          X_init, ests, kmeans, clf, calls, fit_time, predict_time,
          train_inertia, test_inertia, train_acc, test_acc, y_pred, report,
          predictRewritesInertia, prev>>

\* what stays the same for the whole life of a process
procVars == <<script, argv, predictRewritesInertia, prev>>

\* the names the K-means script binds after loading
kmVars == <<rng, centroids_idx, X_init, kmeans, train_inertia, test_inertia>>

\* the names the classification script binds after loading
clVars == <<clf, train_acc, test_acc, y_pred>>

NoData == [X_train |-> <<>>, y_train |-> <<>>, X_test |-> <<>>,
           y_test |-> <<>>, iloc |-> FALSE]

Scripts == {"kmeans", "df_clsf"}

NoArgv == [f \in {} |-> Omitted]

\* no process is running: every name of the script is unbound
Idle ==
    /\ argv = NoArgv
    /\ pc = "exec"
    /\ error = "none"
    /\ exitCode = PyNone
    /\ params = <<>>
    /\ data = NoData
    /\ rng = 0
    /\ centroids_idx = Unbound
    /\ X_init = Unbound
    /\ ests = <<>>
    /\ kmeans = 0
    /\ clf = 0
    /\ calls = 0
    /\ fit_time = PyNone
    /\ predict_time = PyNone
    /\ train_inertia = PyNone
    /\ test_inertia = PyNone
    /\ train_acc = PyNone
    /\ test_acc = PyNone
    /\ y_pred = <<>>
    /\ report = <<>>

Init ==
    /\ script \in Scripts
    /\ predictRewritesInertia \in BOOLEAN
    /\ prev = <<>>
    /\ Idle

\* the interpreter starts the script with some command line; numpy's global
\* generator starts in a state nobody chose
Exec ==
    /\ pc = "exec"
    /\ argv' \in ArgvsOf(script)
    /\ rng' \in 0 .. (RngMod - 1)
    /\ pc' = "parse_args"
    /\ UNCHANGED <<script, predictRewritesInertia, prev, error, exitCode,
                   params, data, centroids_idx, X_init, ests, kmeans, clf,
                   calls, fit_time, predict_time, train_inertia, test_inertia,
                   train_acc, test_acc, y_pred, report>>

\* the exception caught and ignored: the script goes on to its report
Raise_Swallowed(e, code) ==
    /\ pc' = "print_output"
    /\ error' = e
    /\ exitCode' = PyNone

\* an uncaught exception ends the process: traceback, non-zero exit status
Raise(e, code) ==
    /\ pc' = "failed"
    /\ error' = e
    /\ exitCode' = PyInt(code)

\* the script runs on to its next statement
Goto(l) ==
    /\ pc' = l
    /\ UNCHANGED <<error, exitCode>>

\* parse_args: argparse reports a usage error and exits with status 2, or
\* returns the namespace
ParseArgs ==
    /\ pc = "parse_args"
    /\ IF ArgsValid(FlagsOf(script), argv)
       THEN /\ params' = ParsedParams(FlagsOf(script), argv)
            /\ Goto("load_data")
       ELSE /\ Raise("SystemExit", 2)
            /\ UNCHANGED params
    /\ UNCHANGED <<procVars, kmVars, clVars, data, ests, calls, fit_time,
                   predict_time, report>>

\* the datasets load_data can return to script s
DatasetsOf(s) == IF s = "kmeans" THEN Datasets ELSE {d \in Datasets : d.iloc}

\* load_data(params): returns the partitions or raises
LoadData ==
    /\ pc = "load_data"
    /\ \/ /\ \E d \in DatasetsOf(script) : data' = d
          /\ Goto(IF script = "kmeans" THEN "init" ELSE "translate")
       \/ /\ Raise("load_data", 1)
          /\ UNCHANGED data
    /\ UNCHANGED <<procVars, kmVars, clVars, params, ests, calls, fit_time,
                   predict_time, report>>

(***************************************************************************)
(* cuml/kmeans.py                                                          *)
(***************************************************************************)
\* lines 34-45: the initial centroids come from the file or are sampled
K_InitCentroids ==
    /\ pc = "init"
    /\ script = "kmeans"
    /\ IF params.filei.t # "none"
       THEN IF params.filei.v \in DOMAIN Files
            THEN /\ X_init' = [ndim |-> 2, rows |-> Files[params.filei.v]]
                 /\ params' = [params EXCEPT
                                 !.n_clusters = PyInt(Len(X_init'.rows))]
                 /\ Goto("time_fit")
                 /\ UNCHANGED <<rng, centroids_idx>>
            ELSE /\ Raise("np.load", 1)
                 /\ UNCHANGED <<params, rng, centroids_idx, X_init>>
       ELSE IF RandIntRaises(Len(data.X_train), params.n_clusters)
            THEN /\ rng' = SeedState(params.seed.v)
                 /\ Raise("randint", 1)
                 /\ UNCHANGED <<params, centroids_idx, X_init>>
            ELSE LET c == SampleCentroids(rng, params, data.X_train)
                 IN  /\ rng' = c.rng
                     /\ centroids_idx' = c.centroids_idx
                     /\ X_init' = c.X_init
                     /\ Goto("time_fit")
                     /\ UNCHANGED params
    /\ UNCHANGED <<procVars, clVars, data, ests, kmeans, train_inertia,
                   test_inertia, calls, fit_time, predict_time, report>>

\* the duration measure_function_time returns after n calls; the clock is
\* abstracted to one tick per call
Elapsed(n) == PyFloat(n)

\* measure_function_time calls the callable again after c + 1 calls
Again(c, more) == more /\ c + 1 < MaxReps

\* lines 53-58: kmeans_fit builds a new KMeans and fits it
KmeansFit(heap, p, init, inertia) ==
    Append(heap, FitEst(NewKMeans(p, init), inertia))

\* line 62: one call of kmeans_fit made by measure_function_time; after the
\* last call the harness returns the duration and that call's estimator
K_TimeFit ==
    /\ pc = "time_fit"
    /\ script = "kmeans"
    /\ \/ \E inertia \in Inertias, more \in BOOLEAN :
             /\ ests' = KmeansFit(ests, params, X_init, inertia)
             /\ IF Again(calls, more)
                THEN /\ calls' = calls + 1
                     /\ Goto("time_fit")
                     /\ UNCHANGED <<fit_time, kmeans>>
                ELSE /\ calls' = 0
                     /\ fit_time' = Elapsed(calls + 1)
                     /\ kmeans' = Len(ests')
                     /\ Goto("train_inertia")
       \/ /\ ests' = Append(ests, NewKMeans(params, X_init))
          /\ Raise("fit", 1)
          /\ UNCHANGED <<calls, fit_time, kmeans>>
    /\ UNCHANGED <<procVars, clVars, params, data, rng, centroids_idx, X_init,
                   train_inertia, test_inertia, predict_time, report>>

\* line 63
K_TrainInertia ==
    /\ pc = "train_inertia"
    /\ script = "kmeans"
    /\ train_inertia' = ReadInertia(ests[kmeans])
    /\ Goto("time_predict")
    /\ UNCHANGED <<procVars, clVars, params, data, rng, centroids_idx, X_init,
                   ests, kmeans, test_inertia, calls, fit_time, predict_time,
                   report>>

\* line 66: one call of kmeans.predict made by measure_function_time
K_TimePredict ==
    /\ pc = "time_predict"
    /\ script = "kmeans"
    /\ \/ \E inertia \in Inertias, more \in BOOLEAN :
             /\ ests' = [ests EXCEPT ![kmeans] =
                           PredictEst(@, predictRewritesInertia, inertia)]
             /\ IF Again(calls, more)
                THEN /\ calls' = calls + 1
                     /\ Goto("time_predict")
                     /\ UNCHANGED predict_time
                ELSE /\ calls' = 0
                     /\ predict_time' = Elapsed(calls + 1)
                     /\ Goto("test_inertia")
       \/ /\ Raise("predict", 1)
          /\ UNCHANGED <<ests, calls, predict_time>>
    /\ UNCHANGED <<procVars, clVars, params, data, rng, centroids_idx, X_init,
                   kmeans, train_inertia, test_inertia, fit_time, report>>

\* the test inertia read from the first estimator the harness fitted, not
\* from the one it returned
K_TestInertia_First ==
    /\ pc = "test_inertia"
    /\ script = "kmeans"
    /\ test_inertia' = ReadInertia(ests[1])
    /\ Goto("print_output")
    /\ UNCHANGED <<procVars, clVars, params, data, rng, centroids_idx, X_init,
                   ests, kmeans, train_inertia, calls, fit_time, predict_time,
                   report>>

\* line 67
K_TestInertia ==
    /\ pc = "test_inertia"
    /\ script = "kmeans"
    /\ test_inertia' = ReadInertia(ests[kmeans])
    /\ Goto("print_output")
    /\ UNCHANGED <<procVars, clVars, params, data, rng, centroids_idx, X_init,
                   ests, kmeans, train_inertia, calls, fit_time, predict_time,
                   report>>

\* the report with the prediction stage left out
KmeansReport_OneStage ==
    [library |-> "cuml", algorithm |-> "kmeans",
     stages |-> <<"training">>,
     params |-> params,
     functions |-> <<"KMeans.fit">>,
     times |-> <<fit_time>>,
     accuracy_type |-> "inertia",
     accuracies |-> <<train_inertia>>,
     data |-> <<data.X_train>>,
     alg_instance |-> kmeans]

\* lines 69-74: the arguments of the print_output call
KmeansReport ==
    [library |-> "cuml", algorithm |-> "kmeans",
     stages |-> <<"training", "prediction">>,
     params |-> params,
     functions |-> <<"KMeans.fit", "KMeans.predict">>,
     times |-> <<fit_time, predict_time>>,
     accuracy_type |-> "inertia",
     accuracies |-> <<train_inertia, test_inertia>>,
     data |-> <<data.X_train, data.X_test>>,
     alg_instance |-> kmeans]

\* lines 69-74; the script ends after the call
K_PrintOutput ==
    /\ pc = "print_output"
    /\ script = "kmeans"
    /\ report' = Append(report, KmeansReport)
    /\ pc' = "done"
    /\ exitCode' = PyInt(0)
    /\ UNCHANGED <<procVars, kmVars, clVars, error, params, data, ests, calls,
                   fit_time, predict_time>>

(***************************************************************************)
(* cuml_bench/df_clsf.py                                                   *)
(***************************************************************************)
\* the two codes exchanged
CriterionCode_Swapped(c) == IF c = PyStr("gini") THEN PyInt(1) ELSE PyInt(0)

\* lines 55-58
CriterionCode(c) == IF c = PyStr("gini") THEN PyInt(0) ELSE PyInt(1)

\* lines 60-63
SplitAlgoCode(a) == IF a = PyStr("hist") THEN PyInt(0) ELSE PyInt(1)

\* y_train[y_train.columns[0]].nunique()
NUnique(y) == Cardinality({y[i] : i \in DOMAIN y})

\* the class count stored under the name of another field
TranslateParams_WrongField(p, y) ==
    [f \in DOMAIN p |->
        CASE f = "criterion" -> CriterionCode(p.criterion)
          [] f = "split_algorithm" -> SplitAlgoCode(p.split_algorithm)
          [] f = "num_trees" -> PyInt(NUnique(y))
          [] OTHER -> p[f]]

\* lines 55-65: the namespace after the script rewrote it
TranslateParams(p, y) ==
    [f \in DOMAIN p \cup {"n_classes"} |->
        CASE f = "criterion" -> CriterionCode(p.criterion)
          [] f = "split_algorithm" -> SplitAlgoCode(p.split_algorithm)
          [] f = "n_classes" -> PyInt(NUnique(y))
          [] OTHER -> p[f]]

\* lines 55-65
C_Translate ==
    /\ pc = "translate"
    /\ script = "df_clsf"
    /\ params' = TranslateParams(params, data.y_train)
    /\ Goto("time_fit")
    /\ UNCHANGED <<procVars, kmVars, clVars, data, ests, calls, fit_time,
                   predict_time, report>>

\* RandomForestClassifier(...) as fit constructs it
NewForest(p) ==
    [cls |-> "RandomForestClassifier",
     args |-> [split_criterion |-> p.criterion,
               split_algo |-> p.split_algorithm,
               n_estimators |-> p.num_trees,
               max_depth |-> p.max_depth,
               max_features |-> p.max_features,
               min_rows_per_node |-> p.min_samples_split,
               max_leaves |-> p.max_leaf_nodes,
               min_impurity_decrease |-> p.min_impurity_decrease,
               bootstrap |-> p.bootstrap],
     fits |-> 0, predicts |-> 0, inertia_ |-> 0]

\* fit builds the forest only when clf is unbound and refits it otherwise
ClsfFit_Refit(heap, p) ==
    IF heap = <<>> THEN Append(heap, FitEst(NewForest(p), 0))
    ELSE [heap EXCEPT ![Len(heap)] = FitEst(@, 0)]

\* lines 68-79: fit binds the global clf to a new forest and fits it
ClsfFit(heap, p) == Append(heap, FitEst(NewForest(p), 0))

\* line 88: one call of fit made by measure_function_time
C_TimeFit ==
    /\ pc = "time_fit"
    /\ script = "df_clsf"
    /\ \/ \E more \in BOOLEAN :
             /\ ests' = ClsfFit(ests, params)
             /\ clf' = Len(ests')
             /\ IF Again(calls, more)
                THEN /\ calls' = calls + 1
                     /\ Goto("time_fit")
                     /\ UNCHANGED fit_time
                ELSE /\ calls' = 0
                     /\ fit_time' = Elapsed(calls + 1)
                     /\ Goto("predict_train")
       \/ /\ ests' = Append(ests, NewForest(params))
          /\ clf' = Len(ests')
          /\ Raise("fit", 1)
          /\ UNCHANGED <<calls, fit_time>>
    /\ UNCHANGED <<procVars, kmVars, params, data, train_acc, test_acc,
                   y_pred, predict_time, report>>

\* the label arrays clf.predict can return for the rows X
Predictions(X, y) == [DOMAIN X -> {y[i] : i \in DOMAIN y}]

\* bench.accuracy_score: the share of positions where the labels agree
AccuracyScore(yp, y) ==
    [num |-> Cardinality({i \in DOMAIN y : yp[i] = y[i]}), den |-> Len(y)]

\* 100 * bench.accuracy_score(y_pred, y)
Percent(yp, y) ==
    LET a == AccuracyScore(yp, y) IN PyFloat((100 * a.num) \div a.den)

\* lines 89-90: predict on the training rows, training accuracy
C_PredictTrain ==
    /\ pc = "predict_train"
    /\ script = "df_clsf"
    /\ \/ \E yp \in Predictions(data.X_train, data.y_train) :
             /\ ests' = [ests EXCEPT ![clf] = PredictEst(@, FALSE, 0)]
             /\ y_pred' = yp
             /\ train_acc' = Percent(yp, data.y_train)
             /\ Goto("time_predict")
       \/ /\ Raise("predict", 1)
          /\ UNCHANGED <<ests, y_pred, train_acc>>
    /\ UNCHANGED <<procVars, kmVars, params, data, clf, test_acc, calls,
                   fit_time, predict_time, report>>

\* line 92: one call of predict made by measure_function_time
C_TimePredict ==
    /\ pc = "time_predict"
    /\ script = "df_clsf"
    /\ \/ \E yp \in Predictions(data.X_test, data.y_train) :
          \E more \in BOOLEAN :
             /\ ests' = [ests EXCEPT ![clf] = PredictEst(@, FALSE, 0)]
             /\ IF Again(calls, more)
                THEN /\ calls' = calls + 1
                     /\ Goto("time_predict")
                     /\ UNCHANGED <<predict_time, y_pred>>
                ELSE /\ calls' = 0
                     /\ predict_time' = Elapsed(calls + 1)
                     /\ y_pred' = yp
                     /\ Goto("test_acc")
       \/ /\ Raise("predict", 1)
          /\ UNCHANGED <<ests, calls, predict_time, y_pred>>
    /\ UNCHANGED <<procVars, kmVars, params, data, clf, train_acc, test_acc,
                   fit_time, report>>

\* line 93
C_TestAcc ==
    /\ pc = "test_acc"
    /\ script = "df_clsf"
    /\ test_acc' = Percent(y_pred, data.y_test)
    /\ Goto("print_output")
    /\ UNCHANGED <<procVars, kmVars, params, data, ests, clf, train_acc,
                   y_pred, calls, fit_time, predict_time, report>>

\* lines 95-100: the script imported bench, not print_output, so looking the
\* name up raises NameError before any argument is evaluated
C_PrintOutput ==
    /\ pc = "print_output"
    /\ script = "df_clsf"
    /\ Raise("NameError", 1)
    /\ UNCHANGED <<procVars, kmVars, clVars, params, data, ests, calls,
                   fit_time, predict_time, report>>

\* what a finished kmeans.py run that sampled its centroids leaves to
\* compare the next run with
Selection ==
    IF script = "kmeans" /\ centroids_idx # Unbound
    THEN <<[seed |-> params.seed, n_clusters |-> params.n_clusters,
            X_train |-> data.X_train, tol |-> params.tol,
            centroids_idx |-> centroids_idx, X_init |-> X_init]>>
    ELSE prev

\* the process is gone; the same script can be run again as a new process
Exit ==
    /\ pc \in {"done", "failed"}
    /\ prev' = Selection
    /\ argv' = NoArgv
    /\ pc' = "exec"
    /\ error' = "none"
    /\ exitCode' = PyNone
    /\ params' = <<>>
    /\ data' = NoData
    /\ rng' = 0
    /\ centroids_idx' = Unbound
    /\ X_init' = Unbound
    /\ ests' = <<>>
    /\ kmeans' = 0
    /\ clf' = 0
    /\ calls' = 0
    /\ fit_time' = PyNone
    /\ predict_time' = PyNone
    /\ train_inertia' = PyNone
    /\ test_inertia' = PyNone
    /\ train_acc' = PyNone
    /\ test_acc' = PyNone
    /\ y_pred' = <<>>
    /\ report' = <<>>
    /\ UNCHANGED <<script, predictRewritesInertia>>

Next ==
    \/ Exec
    \/ ParseArgs
    \/ LoadData
    \/ K_InitCentroids
    \/ K_TimeFit
    \/ K_TrainInertia
    \/ K_TimePredict
    \/ K_TestInertia
    \/ K_PrintOutput
    \/ C_Translate
    \/ C_TimeFit
    \/ C_PredictTrain
    \/ C_TimePredict
    \/ C_TestAcc
    \/ C_PrintOutput
    \/ Exit

Spec == Init /\ [][Next]_vars

(***************************************************************************)
(* Properties                                                              *)
(***************************************************************************)
\* parse_args has returned the namespace
Parsed == DOMAIN params # {}

\* the process has ended
Ended == pc \in {"done", "failed"}

\* the exceptions raised inside a collaborator or library call
ExternalFailures == {"load_data", "np.load", "randint", "fit", "predict"}

KMeansEsts == {i \in DOMAIN ests : ests[i].cls = "KMeans"}

ForestEsts == {i \in DOMAIN ests : ests[i].cls = "RandomForestClassifier"}

\* C1: a run with a valid command line in which no external call fails ends
\* at the report: print_output was invoked and the exit status is 0.
C1_RunReachesReport ==
    (Ended /\ ArgsValid(FlagsOf(script), argv) /\ error \notin ExternalFailures)
        => (pc = "done" /\ exitCode = PyInt(0) /\ Len(report) = 1)

\* C2: every print_output invocation carries the two stages training and
\* prediction, two functions, two times, two accuracies and two data sets
\* aligned with them, and the accuracy type of the script's family.
C2_ReportShape ==
    \A i \in DOMAIN report :
        LET r == report[i] IN
        /\ r.stages = <<"training", "prediction">>
        /\ Len(r.functions) = 2
        /\ r.times = <<fit_time, predict_time>>
        /\ r.times[1].t = "float" /\ r.times[2].t = "float"
        /\ Len(r.accuracies) = 2
        /\ r.accuracies[1].t = "float" /\ r.accuracies[2].t = "float"
        /\ r.data = <<data.X_train, data.X_test>>
        /\ script = "kmeans" =>
              /\ r.accuracy_type = "inertia"
              /\ r.accuracies = <<train_inertia, test_inertia>>
              /\ r.functions = <<"KMeans.fit", "KMeans.predict">>
        /\ script = "df_clsf" =>
              /\ r.accuracy_type = "accuracy[%]"
              /\ r.accuracies = <<train_acc, test_acc>>

C2_Witness ==
    /\ Len(report) = 1
    /\ Len(ests) >= 2
    /\ ests[kmeans].predicts >= 2

\* C3: every forest constructed got the integer code of the --criterion and
\* --split-algorithm given on the command line (0 for the first choice or an
\* omitted flag, 1 for the second) and the --num-trees value or 100; a token
\* outside the choices ends the run in parse_args with a non-zero status
\* and no estimator.
C3_ForestArgs ==
    script = "df_clsf" =>
        /\ \A i \in ForestEsts :
              LET a == ests[i].args IN
              /\ argv.criterion \in {Omitted, "gini"}
                    => a.split_criterion = PyInt(0)
              /\ argv.criterion = "entropy" => a.split_criterion = PyInt(1)
              /\ a.split_criterion \in {PyInt(0), PyInt(1)}
              /\ argv.split_algorithm \in {Omitted, "hist"}
                    => a.split_algo = PyInt(0)
              /\ argv.split_algorithm = "global_quantile"
                    => a.split_algo = PyInt(1)
              /\ a.split_algo \in {PyInt(0), PyInt(1)}
              /\ a.n_estimators.t = "int"
              /\ IF argv.num_trees = Omitted
                 THEN a.n_estimators.v = 100
                 ELSE Token(a.n_estimators.v) = argv.num_trees
        /\ (pc \notin {"exec", "parse_args"}
            /\ argv.criterion \notin {Omitted, "gini", "entropy"})
              => (pc = "failed" /\ exitCode.t = "int" /\ exitCode.v # 0
                  /\ ests = <<>>)

C3_Witness ==
    /\ script = "df_clsf"
    /\ Len(ests) = 2
    /\ argv.criterion = "entropy"
    /\ argv.num_trees = Omitted
    /\ ests[2].args.split_criterion = PyInt(1)
    /\ ests[2].args.n_estimators = PyInt(100)

\* C4: once a step has raised, the process is in its failed end state with
\* a non-zero exit status and no report, and the only thing that follows is
\* the end of the process: no later step of the script runs.
C4_NoRecovery ==
    [][/\ error' # "none" =>
            /\ pc' = "failed"
            /\ exitCode'.t = "int" /\ exitCode'.v # 0
            /\ report' = <<>>
       /\ error # "none" => pc' = "exec"]_vars

C4_Witness ==
    /\ script = "kmeans"
    /\ error = "predict"
    /\ pc = "failed"
    /\ train_inertia # PyNone
    /\ report = <<>>

\* C5 as stated: after parse_args every field of params holds its parsed
\* value or default, and no field is added.
C5_ReadOnly ==
    Parsed => params = ParsedParams(FlagsOf(script), argv)

\* the fields the script itself writes after parse_args
Rewritten(s) ==
    IF s = "kmeans" THEN {"n_clusters"}
    ELSE {"criterion", "split_algorithm", "n_classes"}

\* C5 amended: after parse_args the script writes only criterion,
\* split_algorithm and the new n_classes (classification) or n_clusters, and
\* that only when an initial-centroids file is given (K-means); every other
\* field holds its parsed value or default up to the report.
C5_OnlyDerivedFieldsWritten ==
    Parsed =>
        LET parsed == ParsedParams(FlagsOf(script), argv) IN
        /\ DOMAIN parsed \subseteq DOMAIN params
        /\ (DOMAIN params \ DOMAIN parsed) \subseteq (Rewritten(script) \ {"n_clusters"})
        /\ \A f \in DOMAIN parsed \ Rewritten(script) : params[f] = parsed[f]
        /\ (script = "kmeans" /\ argv.filei = Omitted)
              => params.n_clusters = parsed.n_clusters
        /\ \A i \in DOMAIN report : report[i].params = params

C5_Witness ==
    /\ script = "df_clsf"
    /\ pc = "print_output"
    /\ "n_classes" \in DOMAIN params
    /\ params.criterion = PyInt(1)
    /\ params.num_trees = PyInt(2)
    /\ argv.num_trees = "2"

\* C6: the cluster count used for centroid sampling and handed to KMeans is
\* an integer in every run, whichever flags are omitted.
C6_ClusterCountDefined ==
    script = "kmeans" =>
        /\ centroids_idx # Unbound => params.n_clusters.t = "int"
        /\ \A i \in KMeansEsts : ests[i].args.n_clusters.t = "int"

\* C7: a run that samples its centroids with the seed, n_clusters and
\* training data of the previous run selects the same indices and the same
\* centroids, whatever its other parameters and whatever state the
\* generator started in.
C7_Deterministic ==
    (/\ script = "kmeans"
     /\ centroids_idx # Unbound
     /\ prev # <<>>
     /\ prev[1].seed = params.seed
     /\ prev[1].n_clusters = params.n_clusters
     /\ prev[1].X_train = data.X_train)
        => /\ centroids_idx = prev[1].centroids_idx
           /\ X_init = prev[1].X_init

C7_Witness ==
    /\ script = "kmeans"
    /\ centroids_idx # Unbound
    /\ prev # <<>>
    /\ prev[1].seed = params.seed
    /\ prev[1].n_clusters = params.n_clusters
    /\ prev[1].X_train = data.X_train
    /\ prev[1].tol # params.tol
    /\ params.n_clusters = PyInt(2)
    /\ rng # SeedState(params.seed.v)
    /\ X_init = prev[1].X_init

\* C8: every KMeans is constructed with a 2-D array of initial centroids
\* whose row count is its n_clusters: the rows of the file when one is
\* given, otherwise n_clusters rows of the training data.
C8_CentroidsMatchClusterCount ==
    \A i \in KMeansEsts :
        LET a == ests[i].args IN
        /\ a.init.ndim = 2
        /\ a.n_clusters = PyInt(Len(a.init.rows))
        /\ IF argv.filei # Omitted
           THEN a.init.rows = Files[argv.filei]
           ELSE \A j \in DOMAIN a.init.rows :
                   \E k \in DOMAIN data.X_train :
                       a.init.rows[j] = data.X_train[k]

\* C9: no estimator is fitted twice, every fit call of the harness made a
\* new estimator, predict runs only on the fitted estimator of the most
\* recent fit call, and that estimator is the one bound to kmeans / clf and
\* handed to the report.
C9_RepeatedFitSafe ==
    /\ \A i \in DOMAIN ests :
          /\ ests[i].fits <= 1
          /\ ests[i].predicts > 0 => (ests[i].fits = 1 /\ i = Len(ests))
          /\ i < Len(ests) => ests[i].fits = 1
    /\ pc = "time_fit" => Len(ests) = calls
    /\ kmeans # 0 => (kmeans = Len(ests) /\ ests[kmeans].fits = 1)
    /\ (clf # 0 /\ pc # "failed") => (clf = Len(ests) /\ ests[clf].fits = 1)
    /\ \A i \in DOMAIN report :
          /\ report[i].alg_instance = Len(ests)
          /\ ests[report[i].alg_instance].fits = 1

C9_Witness ==
    /\ script = "df_clsf"
    /\ Len(ests) = 2
    /\ clf = 2
    /\ ests[2].predicts >= 2
    /\ ests[1].predicts = 0

\* C10: the training inertia is the estimator's inertia_ read after the
\* timed fit and before any predict, the test inertia is the same
\* estimator's inertia_ read after the timed predict, the report carries
\* exactly these two reads, and when predict does not rewrite inertia_ the
\* two are equal.
C10_InertiaReads ==
    script = "kmeans" =>
        /\ (pc = "time_predict" /\ calls = 0) =>
              /\ ests[kmeans].predicts = 0
              /\ train_inertia = PyFloat(ests[kmeans].inertia_)
        /\ test_inertia # PyNone =>
              /\ ests[kmeans].predicts >= 1
              /\ test_inertia = PyFloat(ests[kmeans].inertia_)
              /\ ~predictRewritesInertia => test_inertia = train_inertia
        /\ \A i \in DOMAIN report :
              report[i].accuracies = <<train_inertia, test_inertia>>

C10_Witness ==
    /\ script = "kmeans"
    /\ Len(report) = 1
    /\ ~predictRewritesInertia
    /\ Len(ests) = 2
    /\ ests[1].inertia_ # ests[2].inertia_
    /\ test_inertia = train_inertia
====
